---- MODULE Spec2Model ----
(***************************************************************************)
(* Model of src/visuals/lg_streamlit_app.py, a Streamlit script.           *)
(*                                                                         *)
(* The script.  Lines 279-281 and 291-293, inside main(), are bare string  *)
(* literals indented deeper than the complete statement above them.        *)
(* CPython rejects the file for that (IndentationError: unexpected indent, *)
(* line 279) when it compiles it, so no statement of the script runs: not  *)
(* the imports, not a def, not main().  A run of the script is the action  *)
(* Load, and Load has that one outcome.  Nothing of main()'s body is       *)
(* modelled as running, because it never does.                             *)
(*                                                                         *)
(* The functions.  The eight functions of lines 47-212 (upload_data,       *)
(* split_data, process_data, make_prediction, make_class_metrics,          *)
(* make_eli5_interpretation, make_pdp_interpretation and                   *)
(* make_shap_interpretation) are well-formed function texts.  Each is      *)
(* modelled as an operator translated from its body and is applied, in one *)
(* action, to arguments drawn from bounded sets: `unit` names the function *)
(* a behaviour calls.  These behaviours say what the function text         *)
(* computes when it is called; the script itself never gets that far.      *)
(*                                                                         *)
(* Library calls are modelled by what the library does: train_test_split   *)
(* by sklearn's size arithmetic and the shuffle of random_state=0, the     *)
(* encoder by the categories it learns, a classifier by its sorted class   *)
(* list, pdp_isolate by one curve per class of the model.                  *)
(***************************************************************************)
EXTENDS Integers, Sequences, FiniteSets, TLC

\* ------------------------------------------------------------------ bounds

\* Largest number of data rows of a table.
MaxRows == 10

\* ------------------------------------------------- constants of the source

TrainPct1 == 80
TestPct1 == 20
TrainPct2 == 75
TestPct2 == 25

\* ------------------------------------------------------------ plain helpers

Range(s) == {s[i] : i \in 1..Len(s)}

Last(s) == s[Len(s)]

Front(s) == SubSeq(s, 1, Len(s) - 1)

\* math.ceil(a / b) and math.floor(a / b) for a >= 0, b > 0
Ceil(a, b) == (a + b - 1) \div b

Floor(a, b) == a \div b

\* Every cell value of the tables, in Python's string order.
Universe ==
    << "Deceased", "Emergency Shelter", "F", "M", "Permanent Exit",
       "Temporary Exit", "Transitional Housing", "Unknown/Other",
       "high", "low", "mid" >>

Rank(v) == CHOOSE i \in 1..Len(Universe) : Universe[i] = v

\* np.unique / sorted(set(...)): the distinct values of S in ascending order
SortedUnique(S) ==
    [k \in 1..Cardinality(S) |->
        CHOOSE v \in S : Cardinality({w \in S : Rank(w) < Rank(v)}) = k - 1]

\* the column of name c in a frame, as a function from row label to value
Column(frame, c) ==
    LET j == CHOOSE k \in 1..Len(frame.columns) : frame.columns[k] = c
    IN  [i \in DOMAIN frame.rows |-> frame.rows[i][j]]

\* --------------------------------------------------------- uploaded files

NoFile == [present |-> FALSE, columns |-> <<>>, rows |-> <<>>]

Headers ==
    { << "Gender", "Income", "Target Exit Destination" >>,
      << "Gender", "Income", "exit_status" >>,
      << "Target Exit Destination", "Gender" >> }

LabelPatterns ==
    { << "Unknown/Other", "Permanent Exit", "Emergency Shelter",
         "Temporary Exit", "Transitional Housing" >>,
      << "Permanent Exit", "Deceased", "Unknown/Other" >> }

Cycle(pattern, i) == pattern[((i - 1) % Len(pattern)) + 1]

Cell(c, i, labels) ==
    IF c = "Gender" THEN Cycle(<< "F", "M" >>, i)
    ELSE IF c = "Income" THEN Cycle(<< "low", "mid", "high" >>, i)
    ELSE Cycle(labels, i)

\* The CSV files a user can upload: a header and 0..MaxRows data rows.
Files ==
    { [present |-> TRUE,
       columns |-> h,
       rows    |-> [i \in 1..n |-> [j \in 1..Len(h) |-> Cell(h[j], i, labels)]]] :
        h \in Headers, n \in 0..MaxRows, labels \in LabelPatterns }

\* ------------------------------------------------------------ empty values

\* A frame: its column names, its row labels in row order, and its rows.
NoFrame == [columns |-> <<>>, index |-> <<>>, rows |-> <<>>]

NoSeries == [name |-> "", index |-> <<>>, values |-> <<>>]

NoProcessor == [n_fit |-> 0, categories |-> <<>>]

NoModel == [family |-> "", n_fit |-> 0, classes_ |-> <<>>, fit_X |-> {}, fit_y |-> {}]

NoArtifact == [kind |-> "none", feature |-> "", label |-> "", curve |-> ""]

\* ------------------------------------------------------------ widget reads

\* The value a selectbox holds before the user touches it.
Untouched == "<untouched>"

\* st.selectbox: the first option until the user picks another
Selectbox(options, choice) == IF choice = Untouched THEN options[1] ELSE choice

\* What the user may have done with a widget offering these options.
Choices(options) == {Untouched} \cup Range(options)

\* ------------------------------------------------------------- upload_data

\* A variant that offers the columns in file order.
ColNamesFirstColumn(columns) == columns

\* line 52: the last column moved to the front of the option list
ColNames(columns) == << Last(columns) >> \o Front(columns)

\* pd.read_csv: the rows are labelled 0, 1, ... in file order (here 1, 2, ...)
ReadCsv(file) ==
    [columns |-> file.columns,
     index   |-> [i \in 1..Len(file.rows) |-> i],
     rows    |-> file.rows]

\* DataFrame.drop(c, axis=1)
Drop(frame, c) ==
    LET keep == SelectSeq([j \in 1..Len(frame.columns) |-> j],
                          LAMBDA j : frame.columns[j] # c)
    IN  [columns |-> [k \in 1..Len(keep) |-> frame.columns[keep[k]]],
         index   |-> frame.index,
         rows    |-> [i \in DOMAIN frame.rows |->
                        [k \in 1..Len(keep) |-> frame.rows[i][keep[k]]]]]

\* df[c]
Series(frame, c) == [name |-> c, index |-> frame.index, values |-> Column(frame, c)]

\* upload_data(uploaded_file); `choice` is the state of the target selectbox.
\* With no file the `if` of line 49 is skipped and the function falls off its
\* end: it returns None, raises nothing and shows nothing.
upload_data(file, choice) ==
    IF ~file.present
    THEN [none |-> TRUE, X |-> NoFrame, y |-> NoSeries, df |-> NoFrame,
          target_cols |-> ""]
    ELSE LET df0 == ReadCsv(file)
             col_names == ColNames(df0.columns)
             target == Selectbox(col_names, choice)
         IN  [none |-> FALSE, X |-> Drop(df0, target), y |-> Series(df0, target),
              df |-> df0, target_cols |-> target]

\* -------------------------------------------------------------- split_data

\* np.random.RandomState(0).permutation(n) for n = 0, 1, ..., 12, as positions
\* counted from 1: entry n + 1 is the order random_state=0 puts n rows in.
Permutation0 ==
    << << >>,
       << 1 >>,
       << 2, 1 >>,
       << 3, 2, 1 >>,
       << 3, 4, 2, 1 >>,
       << 3, 1, 2, 4, 5 >>,
       << 6, 3, 2, 4, 1, 5 >>,
       << 7, 3, 2, 4, 1, 6, 5 >>,
       << 7, 3, 2, 8, 4, 1, 6, 5 >>,
       << 8, 3, 2, 5, 9, 7, 4, 1, 6 >>,
       << 3, 9, 5, 10, 2, 7, 8, 4, 1, 6 >>,
       << 5, 10, 3, 11, 7, 2, 8, 9, 4, 1, 6 >>,
       << 7, 12, 5, 11, 3, 9, 2, 8, 10, 4, 1, 6 >> >>

\* train_test_split(arrays, train_size, test_size, random_state=0) on rows
\* labelled `index`, in that order.  Sizes as in sklearn's
\* _validate_shuffle_split: n_test = ceil(test_size * n), n_train =
\* floor(train_size * n); ValueError when the train set is empty or the two
\* sizes exceed n.  ShuffleSplit takes the first n_test positions of the
\* permutation as test rows and the next n_train as train rows.
train_test_split(index, train_pct, test_pct) ==
    LET n == Len(index)
        n_test == Ceil(test_pct * n, 100)
        n_train == Floor(train_pct * n, 100)
        perm == Permutation0[n + 1]
    IN  IF n_train + n_test > n \/ n_train = 0
        THEN [ok |-> FALSE, train |-> <<>>, test |-> <<>>]
        ELSE [ok |-> TRUE,
              test  |-> [k \in 1..n_test |-> index[perm[k]]],
              train |-> [k \in 1..n_train |-> index[perm[n_test + k]]]]

\* rows of a frame / series with the labels `index`, in that order
Take(frame, index) ==
    [columns |-> frame.columns, index |-> index,
     rows |-> [i \in Range(index) |-> frame.rows[i]]]

TakeSeries(series, index) ==
    [name |-> series.name, index |-> index,
     values |-> [i \in Range(index) |-> series.values[i]]]

\* What split_data returns (raised = TRUE: a ValueError came out of it).
Splits(X0, y0, failed, tr, te, va) ==
    [raised |-> failed,
     X_train |-> Take(X0, tr), X_test |-> Take(X0, te), X_val |-> Take(X0, va),
     y_train |-> TakeSeries(y0, tr), y_test |-> TakeSeries(y0, te),
     y_val |-> TakeSeries(y0, va)]

\* A variant whose second call splits the whole table again.
split_data_second_on_all(X0, y0) ==
    LET s1 == train_test_split(X0.index, TrainPct1, TestPct1)
        s2 == train_test_split(X0.index, TrainPct2, TestPct2)
        failed == ~s1.ok \/ ~s2.ok
    IN  Splits(X0, y0, failed,
               IF failed THEN <<>> ELSE s2.train,
               IF failed THEN <<>> ELSE s1.test,
               IF failed THEN <<>> ELSE s2.test)

\* A variant that splits once and hands the test rows out as validation rows.
split_data_single(X0, y0) ==
    LET s1 == train_test_split(X0.index, TrainPct1, TestPct1)
        failed == ~s1.ok
    IN  Splits(X0, y0, failed,
               IF failed THEN <<>> ELSE s1.train,
               IF failed THEN <<>> ELSE s1.test,
               IF failed THEN <<>> ELSE s1.test)

\* split_data(X, y): two train_test_split calls, the second (lines 71-74) on
\* the train part of the first (lines 68-70).
split_data(X0, y0) ==
    LET s1 == train_test_split(X0.index, TrainPct1, TestPct1)
        s2 == train_test_split(s1.train, TrainPct2, TestPct2)
        failed == ~s1.ok \/ ~s2.ok
    IN  Splits(X0, y0, failed,
               IF failed THEN <<>> ELSE s2.train,
               IF failed THEN <<>> ELSE s1.test,
               IF failed THEN <<>> ELSE s2.test)

\* ------------------------------------------------------------ process_data

\* A call made on the processor or on the model: the operation and the row
\* labels of the feature matrix and of the targets it was given.
Call(op, Xindex, yindex) == [op |-> op, X |-> Xindex, y |-> yindex]

\* What OrdinalEncoder + SimpleImputer learn from a frame: per column, the
\* values seen.
Categories(frame) ==
    [j \in 1..Len(frame.columns) |-> {frame.rows[i][j] : i \in DOMAIN frame.rows}]

\* processor.fit(frame): the parameters are recomputed from `frame`
FitProcessor(proc, frame) ==
    [n_fit |-> proc.n_fit + 1, categories |-> Categories(frame)]

\* processor.transform(frame): a numeric matrix, one row per row of the frame,
\* encoded with the parameters the processor holds
Transform(proc, frame) ==
    [index |-> frame.index, ncols |-> Len(frame.columns),
     params |-> proc.categories]

\* dict(zip(range(0, X.shape[1]), list(X.columns)))
Features(X0) == [k \in 0..(Len(X0.columns) - 1) |-> X0.columns[k + 1]]

\* process_data(X_train, X_test, X_val, X): line 81 fits the processor on the
\* training frame, lines 82-83 apply it to the other two.
process_data(Xtr, Xte, Xva, X0) ==
    LET p0 == NoProcessor
        p1 == FitProcessor(p0, Xtr)
    IN  [X_train |-> Transform(p1, Xtr),
         X_val   |-> Transform(p1, Xva),
         X_test  |-> Transform(p1, Xte),
         features |-> Features(X0),
         column_names |-> X0.columns,
         processor |-> p1,
         calls |-> << Call("fit_transform", Range(Xtr.index), {}),
                      Call("transform", Range(Xva.index), {}),
                      Call("transform", Range(Xte.index), {}) >>]

\* ------------------------------------------------------ a fitted classifier

ModelOptions == << "CatBoost", "XGBoost", "RandomForest" >>

NewClassifier(family) == [NoModel EXCEPT !.family = family]

\* model.fit(X, y) raises: CatBoost rejects a target with one distinct value
FitRaises(family, ys) ==
    /\ family = "CatBoostClassifier"
    /\ Cardinality({ys.values[i] : i \in DOMAIN ys.values}) = 1

\* model.fit(X, y) returns: classes_ are the distinct training targets, sorted
FitModel(m, Xm, ys) ==
    [m EXCEPT !.n_fit = @ + 1,
              !.classes_ = SortedUnique({ys.values[i] : i \in DOMAIN ys.values}),
              !.fit_X = Range(Xm.index),
              !.fit_y = DOMAIN ys.values]

FamilyOf(name) ==
    IF name = "CatBoost" THEN "CatBoostClassifier"
    ELSE IF name = "XGBoost" THEN "XGBClassifier"
    ELSE IF name = "RandomForest" THEN "RandomForestClassifier"
    ELSE ""

\* The statements of lines 231-242 for a selector value: the classifier they
\* leave in `model`; no branch leaves it unbound.
TrainModel(name, Xm, ys) ==
    IF name = "CatBoost" THEN FitModel(NewClassifier("CatBoostClassifier"), Xm, ys)
    ELSE IF name = "XGBoost" THEN FitModel(NewClassifier("XGBClassifier"), Xm, ys)
    ELSE IF name = "RandomForest"
         THEN FitModel(NewClassifier("RandomForestClassifier"), Xm, ys)
    ELSE NoModel

\* ------------------------------------------- make_prediction, class metrics

\* No prediction: `pred` is not bound.
NoPred == [index |-> <<>>, classes |-> <<>>]

\* make_prediction(training_set, model): line 92 calls model.predict on the
\* matrix; the result has one label per row, out of the model's classes.
make_prediction(Xm, m) ==
    [pred |-> [index |-> Xm.index, classes |-> m.classes_],
     calls |-> << Call("predict", Range(Xm.index), {}) >>]

\* make_class_metrics(target, pred, training_set, model, ml_name): line 100
\* computes the report from target and pred, lines 105-106 have the model
\* predict training_set again for the confusion matrix against target.
make_class_metrics(ys, p, Xm, m, name) ==
    [calls |-> << Call("classification_report", Range(p.index), Range(ys.index)),
                  Call("plot_confusion_matrix", Range(Xm.index), Range(ys.index)) >>]

\* ---------------------------------------------------- interpretation handlers

Artifact(kind, col, label, curve) ==
    [kind |-> kind, feature |-> col, label |-> label, curve |-> curve]

Outcome(calls0, artifact0, offered, raised) ==
    [calls |-> calls0, artifact |-> artifact0, class_list |-> offered,
     raised |-> raised]

\* lines 168-177: the literal label -> position chain; -1 when no branch matches
PdpIndex(class) ==
    IF class = "Unknown/Other" THEN 0
    ELSE IF class = "Permanent Exit" THEN 1
    ELSE IF class = "Emergency Shelter" THEN 2
    ELSE IF class = "Temporary Exit" THEN 3
    ELSE IF class = "Transitional Housing" THEN 4
    ELSE -1

\* line 158: the literal column name
PdpColumn == "Target Exit Destination"

\* line 158: the distinct values of dataset['Target Exit Destination']
ClassList(dataset) ==
    LET col == Column(dataset, PdpColumn) IN {col[i] : i \in DOMAIN col}

\* The classes the second selectbox offers; none when line 158 raises.
Offered(dataset) ==
    IF PdpColumn \in Range(dataset.columns) THEN ClassList(dataset) ELSE {}

\* make_pdp_interpretation(dataset, column_names, training_set, model) with the
\* two selectbox values.  pdp_isolate returns one curve per class of the model,
\* in the order of model.classes_, as a list only when there are more than two
\* classes; otherwise a single object that cannot be indexed.  When no branch
\* of the chain matches, nothing is plotted and st.pyplot() shows an empty
\* figure.
make_pdp_interpretation(dataset, names, Xm, m, col_pdp, class) ==
    LET n_classes == Len(m.classes_)
        k == PdpIndex(class)
        isolate == << Call("pdp_isolate", Range(Xm.index), {}) >>
        offered == Offered(dataset)
    IN  IF PdpColumn \notin Range(dataset.columns)
        THEN Outcome(<<>>, NoArtifact, offered, "KeyError")
        ELSE IF k = -1
        THEN Outcome(isolate, Artifact("empty_figure", col_pdp, class, ""),
                     offered, "none")
        ELSE IF n_classes <= 2
        THEN Outcome(isolate, NoArtifact, offered, "TypeError")
        ELSE IF k >= n_classes
        THEN Outcome(isolate, NoArtifact, offered, "IndexError")
        ELSE Outcome(isolate,
                     Artifact("pdp_curve", col_pdp, class, m.classes_[k + 1]),
                     offered, "none")

\* make_eli5_interpretation(training_set, target, model, features, X, ml_name):
\* lines 118-119 fit a PermutationImportance around the fitted model (the model
\* itself is only queried), line 135 calls permutation_importance on the same
\* matrix and targets; of X only the column names are read (line 139).  Both
\* rankings are rendered.
make_eli5_interpretation(Xm, ys, m, feats, X0, name) ==
    Outcome(<< Call("PermutationImportance.fit", Range(Xm.index), Range(ys.index)),
               Call("permutation_importance", Range(Xm.index), Range(ys.index)) >>,
            Artifact("permutation_rankings", "", "", ""), {}, "none")

\* make_shap_interpretation(model, training_set, column_names, ml_name): lines
\* 187-188 build a TreeExplainer of the model and compute the SHAP values of
\* the matrix, lines 189-197 render the summary plot.
make_shap_interpretation(m, Xm, names, name) ==
    Outcome(<< Call("TreeExplainer", {}, {}),
               Call("shap_values", Range(Xm.index), {}) >>,
            Artifact("shap_summary", "", "", ""), {}, "none")

\* ------------------------------------------------------------------- state

VARIABLES
    unit,           \* "script": the file is run; else the function that is called
    pc,             \* "start", "returned" or "raised"
    error,          \* the exception that came out, "none" otherwise
    uploaded_file,  \* what the file_uploader holds / the argument of upload_data
    chosen,         \* what the user did with the target selectbox
    returned_none,  \* upload_data returned None
    X, y, df, target_cols,
    X_train, X_test, X_val, y_train, y_test, y_val,
    processor, features, column_names,
    ml_name, model,
    training_set,   \* the matrix handed to the function called
    target,         \* the targets handed to the function called
    pred,           \* what make_prediction returned
    feature, target_value,  \* the two selectbox values of make_pdp_interpretation
    class_list,     \* the classes its second selectbox offered
    calls,          \* the calls made on the processor and on the model, in order
    artifact        \* what was rendered

vars ==
    << unit, pc, error, uploaded_file, chosen, returned_none,
       X, y, df, target_cols,
       X_train, X_test, X_val, y_train, y_test, y_val,
       processor, features, column_names, ml_name, model, training_set,
       target, pred, feature, target_value, class_list, calls, artifact >>

inputs == << unit, uploaded_file, chosen >>

ingested == << returned_none, X, y, df, target_cols >>

splits == << X_train, X_test, X_val, y_train, y_test, y_val >>

processed == << processor, features, column_names >>

fitted == << ml_name, model, training_set, target >>

pdp_state == << feature, target_value, class_list >>

\* The functions a behaviour can call.
Units ==
    { "upload_data", "split_data", "process_data", "make_prediction",
      "make_class_metrics", "make_eli5_interpretation",
      "make_pdp_interpretation", "make_shap_interpretation" }

\* The functions that are handed a fitted model and a processed matrix.
ModelUnits ==
    { "make_prediction", "make_class_metrics", "make_eli5_interpretation",
      "make_pdp_interpretation", "make_shap_interpretation" }

\* What a behaviour of unit u holds before its action: the arguments of the
\* function, obtained from a file and a target choice the way the functions
\* before it produce them, and every other name unbound.
Prepared(u, file, choice, name, on_test) ==
    LET a == upload_data(file, choice)
        s == split_data(a.X, a.y)
        p == process_data(s.X_train, s.X_test, s.X_val, a.X)
        has_matrices == u \in ModelUnits
        has_frames == u = "process_data"
        has_table == u = "split_data" \/ has_frames \/ has_matrices
        has_target == u \in {"make_class_metrics", "make_eli5_interpretation"}
        m == TrainModel(name, p.X_train, s.y_train)
        Xm == IF on_test THEN p.X_test ELSE p.X_val
    IN  /\ unit = u
        /\ pc = "start"
        /\ error = "none"
        /\ uploaded_file = file
        /\ chosen = choice
        /\ returned_none = FALSE
        /\ X = IF has_table THEN a.X ELSE NoFrame
        /\ y = IF has_table THEN a.y ELSE NoSeries
        /\ df = IF has_table THEN a.df ELSE NoFrame
        /\ target_cols = IF has_table THEN a.target_cols ELSE ""
        /\ X_train = IF has_frames THEN s.X_train
                     ELSE IF has_matrices THEN p.X_train ELSE NoFrame
        /\ X_test = IF has_frames THEN s.X_test
                    ELSE IF has_matrices THEN p.X_test ELSE NoFrame
        /\ X_val = IF has_frames THEN s.X_val
                   ELSE IF has_matrices THEN p.X_val ELSE NoFrame
        /\ y_train = IF has_frames \/ has_matrices THEN s.y_train ELSE NoSeries
        /\ y_test = IF has_frames \/ has_matrices THEN s.y_test ELSE NoSeries
        /\ y_val = IF has_frames \/ has_matrices THEN s.y_val ELSE NoSeries
        /\ processor = IF has_matrices THEN p.processor ELSE NoProcessor
        /\ features = IF has_matrices THEN p.features ELSE <<>>
        /\ column_names = IF has_matrices THEN p.column_names ELSE <<>>
        /\ ml_name = IF has_matrices THEN name ELSE ""
        /\ model = IF has_matrices THEN m ELSE NoModel
        /\ training_set = IF has_matrices THEN Xm ELSE NoFrame
        /\ target = IF has_target
                    THEN (IF on_test THEN s.y_test ELSE s.y_val)
                    ELSE NoSeries
        /\ pred = IF u = "make_class_metrics" THEN make_prediction(Xm, m).pred
                  ELSE NoPred
        /\ feature = ""
        /\ target_value = ""
        /\ class_list = {}
        /\ calls = <<>>
        /\ artifact = NoArtifact

\* The script is started: nothing is uploaded, no name is bound.
ScriptStart == Prepared("script", NoFile, Untouched, "", TRUE)

\* upload_data is called with a file or with None.
UploadStart ==
    \E file \in Files \cup {NoFile} :
    \E choice \in IF file.present THEN Choices(ColNames(file.columns))
                  ELSE {Untouched} :
        Prepared("upload_data", file, choice, "", TRUE)

\* split_data is called with the X and y of a table.
SplitStart ==
    \E file \in Files :
    \E choice \in Choices(ColNames(file.columns)) :
        Prepared("split_data", file, choice, "", TRUE)

\* process_data is called with the frames split_data returned.
ProcessStart ==
    \E file \in Files :
    \E choice \in Choices(ColNames(file.columns)) :
        LET a == upload_data(file, choice)
        IN  /\ ~split_data(a.X, a.y).raised
            /\ Prepared("process_data", file, choice, "", TRUE)

\* A function of ModelUnits is called with the processed test or validation
\* matrix and a classifier fitted on the processed training split, and with
\* what else it takes: the targets of that matrix, the prediction for it, the
\* table.
ModelStart ==
    \E u \in ModelUnits :
    \E file \in Files :
    \E choice \in Choices(ColNames(file.columns)) :
    \E name \in Range(ModelOptions) :
    \E on_test \in BOOLEAN :
        LET a == upload_data(file, choice)
            s == split_data(a.X, a.y)
        IN  /\ ~s.raised
            /\ ~FitRaises(FamilyOf(name), s.y_train)
            /\ Prepared(u, file, choice, name, on_test)

Init ==
    \/ ScriptStart
    \/ UploadStart
    \/ SplitStart
    \/ ProcessStart
    \/ ModelStart

\* An exception comes out.
Raise(exc) == pc' = "raised" /\ error' = exc

\* The function returns.
Return == pc' = "returned" /\ UNCHANGED error

\* ------------------------------------------------------------------ actions

\* Streamlit compiles the script before it runs it; the compilation fails at
\* line 279 and Streamlit shows the error.  No statement has run.
Load ==
    /\ unit = "script"
    /\ pc = "start"
    /\ Raise("IndentationError")
    /\ UNCHANGED << inputs, ingested, splits, processed, fitted, pred, pdp_state, calls, artifact >>

\* The user reloads the page: Streamlit compiles the same file again.
Rerun ==
    /\ unit = "script"
    /\ pc = "raised"
    /\ pc' = "start"
    /\ error' = "none"
    /\ UNCHANGED << inputs, ingested, splits, processed, fitted, pred, pdp_state, calls, artifact >>

\* X, y, df, target_cols = upload_data(uploaded_file), lines 47-63
Call_upload_data ==
    /\ unit = "upload_data"
    /\ pc = "start"
    /\ LET r == upload_data(uploaded_file, chosen)
       IN  /\ returned_none' = r.none
           /\ X' = r.X /\ y' = r.y /\ df' = r.df
           /\ target_cols' = r.target_cols
    /\ Return
    /\ UNCHANGED << inputs, splits, processed, fitted, pred, pdp_state, calls, artifact >>

\* split_data(X, y), lines 66-75
Call_split_data ==
    /\ unit = "split_data"
    /\ pc = "start"
    /\ LET r == split_data(X, y)
       IN  IF r.raised
           THEN /\ Raise("ValueError")
                /\ UNCHANGED splits
           ELSE /\ X_train' = r.X_train /\ X_test' = r.X_test /\ X_val' = r.X_val
                /\ y_train' = r.y_train /\ y_test' = r.y_test /\ y_val' = r.y_val
                /\ Return
    /\ UNCHANGED << inputs, ingested, processed, fitted, pred, pdp_state, calls, artifact >>

\* process_data(X_train, X_test, X_val, X), lines 78-87
Call_process_data ==
    /\ unit = "process_data"
    /\ pc = "start"
    /\ LET r == process_data(X_train, X_test, X_val, X)
       IN  /\ X_train' = r.X_train /\ X_test' = r.X_test /\ X_val' = r.X_val
           /\ features' = r.features
           /\ column_names' = r.column_names
           /\ processor' = r.processor
           /\ calls' = calls \o r.calls
    /\ Return
    /\ UNCHANGED << inputs, ingested, y_train, y_test, y_val, fitted, pred,
                    pdp_state, artifact >>

\* make_pdp_interpretation(df, column_names, training_set, model), lines
\* 151-180; the user picks a feature and, when line 158 does not raise, a class
Call_make_pdp_interpretation ==
    /\ unit = "make_pdp_interpretation"
    /\ pc = "start"
    /\ \E col_pdp \in Range(column_names) :
       \E class \in IF Offered(df) = {} THEN {""} ELSE Offered(df) :
         LET r == make_pdp_interpretation(df, column_names, training_set, model,
                                          col_pdp, class)
         IN  /\ feature' = col_pdp
             /\ target_value' = class
             /\ class_list' = r.class_list
             /\ calls' = calls \o r.calls
             /\ artifact' = r.artifact
             /\ IF r.raised = "none" THEN Return ELSE Raise(r.raised)
    /\ UNCHANGED << inputs, ingested, splits, processed, fitted, pred >>

\* pred = make_prediction(training_set, model), lines 90-93
Call_make_prediction ==
    /\ unit = "make_prediction"
    /\ pc = "start"
    /\ LET r == make_prediction(training_set, model)
       IN  /\ pred' = r.pred
           /\ calls' = calls \o r.calls
    /\ Return
    /\ UNCHANGED << inputs, ingested, splits, processed, fitted, pdp_state, artifact >>

\* make_class_metrics(target, pred, training_set, model, ml_name), lines 96-110
Call_make_class_metrics ==
    /\ unit = "make_class_metrics"
    /\ pc = "start"
    /\ calls' = calls \o
           make_class_metrics(target, pred, training_set, model, ml_name).calls
    /\ Return
    /\ UNCHANGED << inputs, ingested, splits, processed, fitted, pred,
                    pdp_state, artifact >>

\* The handler returned or raised.
Finish(r) ==
    /\ calls' = calls \o r.calls
    /\ artifact' = r.artifact
    /\ IF r.raised = "none" THEN Return ELSE Raise(r.raised)
    /\ UNCHANGED << inputs, ingested, splits, processed, fitted, pred >>

\* make_eli5_interpretation(training_set, target, model, features, X, ml_name),
\* lines 113-148
Call_make_eli5_interpretation ==
    /\ unit = "make_eli5_interpretation"
    /\ pc = "start"
    /\ Finish(make_eli5_interpretation(training_set, target, model, features, X,
                                       ml_name))
    /\ UNCHANGED pdp_state

\* make_shap_interpretation(model, training_set, column_names, ml_name), lines
\* 183-212
Call_make_shap_interpretation ==
    /\ unit = "make_shap_interpretation"
    /\ pc = "start"
    /\ Finish(make_shap_interpretation(model, training_set, column_names, ml_name))
    /\ UNCHANGED pdp_state

Next ==
    \/ Load
    \/ Rerun
    \/ Call_upload_data
    \/ Call_split_data
    \/ Call_process_data
    \/ Call_make_prediction
    \/ Call_make_class_metrics
    \/ Call_make_eli5_interpretation
    \/ Call_make_pdp_interpretation
    \/ Call_make_shap_interpretation

Spec == Init /\ [][Next]_vars

\* ------------------------------------------------------- reading the state

\* The row labels of a frame or of a processed matrix.
Index(v) == Range(v.index)

NRows == Len(X.index)

CallsOf(ops) == {k \in 1..Len(calls) : calls[k].op \in ops}

\* A run of the script has ended (the pass is over).
PassEnded == unit = "script" /\ pc # "start"

\* The function `u` was called and its call has ended.
Called(u) == unit = u /\ pc # "start"

\* The distinct values of a series.
Distinct(series) == {series.values[i] : i \in DOMAIN series.values}

\* ------------------------------------------------------------------ claims

\* C1: whenever split_data succeeds on N rows, train, validation and test are
\* pairwise disjoint, their union is the full row set, the test set has
\* ceil(0.20*N) rows, the validation set ceil(0.25*(N - |test|)) rows, and both
\* are within one row of 0.20*N.
C1_SplitIsPartition ==
    (Called("split_data") /\ pc = "returned") =>
        LET all == Index(X)
            n  == Cardinality(all)
            tr == Index(X_train)
            te == Index(X_test)
            va == Index(X_val)
            nte == Cardinality(te)
            nva == Cardinality(va)
        IN  /\ tr \cap te = {} /\ tr \cap va = {} /\ te \cap va = {}
            /\ tr \cup te \cup va = all
            /\ Len(X_train.index) = Cardinality(tr)
            /\ Len(X_test.index) = nte
            /\ Len(X_val.index) = nva
            /\ y_train.index = X_train.index
            /\ y_test.index = X_test.index
            /\ y_val.index = X_val.index
            /\ 5 * nte >= n /\ 5 * (nte - 1) < n
            /\ 4 * nva >= n - nte /\ 4 * (nva - 1) < n - nte
            /\ 5 * nte - n < 5 /\ n - 5 * nte < 5
            /\ 5 * nva - n < 5 /\ n - 5 * nva < 5

C1_Witness ==
    /\ Called("split_data") /\ pc = "returned"
    /\ NRows = MaxRows
    /\ Len(X_test.index) >= 2 /\ Len(X_val.index) >= 2
    /\ Len(X_train.index) = NRows - Len(X_test.index) - Len(X_val.index)

\* C2: the curve that make_pdp_interpretation plots is the one of the selected
\* class label, i.e. the one at the label's position in model.classes_.
C2_CurveOfSelectedClass ==
    (Called("make_pdp_interpretation") /\ artifact.kind = "pdp_curve") =>
        /\ artifact.label = target_value
        /\ artifact.curve = target_value
        /\ model.classes_[PdpIndex(target_value) + 1] = target_value

\* C3: with no file, ingestion ends in the InvalidInputError outcome: a call
\* of upload_data without a file raises, a pass of the script without a file
\* ends in that error, and a target column is always a column of the table.
C3_NoFileRejectedAtIngestion ==
    /\ (Called("upload_data") /\ ~uploaded_file.present) =>
           pc = "raised" /\ ~returned_none
    /\ (PassEnded /\ ~uploaded_file.present) =>
           pc = "raised" /\ error = "InvalidInputError"
    /\ (Called("upload_data") /\ uploaded_file.present) =>
           target_cols \in Range(df.columns)

C5_PdpSelectionChecked ==
    Called("make_pdp_interpretation") =>
        /\ class_list = Distinct(y)
        /\ IF /\ target_value \in Range(model.classes_)
              /\ feature \in Range(column_names)
           THEN pc = "returned" /\ artifact.kind = "pdp_curve"
           ELSE pc = "raised"

\* The processor was fitted exactly once, on the training rows only and before
\* the validation and test rows were transformed; the three matrices are
\* encoded with those parameters, and the index-to-name mapping lists the
\* feature columns in file order without the target column.
FittedOnTrainOnly ==
    LET names == SelectSeq(df.columns, LAMBDA c : c # target_cols)
    IN  /\ processor.n_fit = 1
        /\ processor.categories = Categories(Take(X, y_train.index))
        /\ X_train.params = processor.categories
        /\ X_val.params = processor.categories
        /\ X_test.params = processor.categories
        /\ X_train.index = y_train.index
        /\ X_val.index = y_val.index
        /\ X_test.index = y_test.index
        /\ Len(calls) = 3
        /\ calls[1] = Call("fit_transform", Index(y_train), {})
        /\ calls[2] = Call("transform", Index(y_val), {})
        /\ calls[3] = Call("transform", Index(y_test), {})
        /\ features = [k \in 0..(Len(names) - 1) |-> names[k + 1]]
        /\ column_names = names
        /\ target_cols \notin {features[k] : k \in DOMAIN features}

\* What process_data does when it is called: it fits on the training frame only.
ProcessDataFitsTrainOnly == Called("process_data") => FittedOnTrainOnly

ArtifactKinds == { "permutation_rankings", "pdp_curve", "shap_summary" }

C8_DefaultTargetLastColumn ==
    (Called("upload_data") /\ Len(uploaded_file.columns) >= 2) =>
        /\ pc = "returned" /\ ~returned_none
        /\ df.columns = uploaded_file.columns
        /\ chosen = Untouched => target_cols = df.columns[Len(df.columns)]
        /\ chosen # Untouched => target_cols = chosen
        /\ Range(X.columns) = Range(df.columns) \ {target_cols}
        /\ Len(X.columns) = Len(df.columns) - 1
        /\ target_cols \in Range(df.columns)
        /\ y.name = target_cols
        /\ y.values = Column(df, target_cols)
        /\ X.index = df.index

C8_Witness ==
    /\ Called("upload_data") /\ pc = "returned"
    /\ chosen = Untouched
    /\ df.columns = << "Target Exit Destination", "Gender" >>
    /\ target_cols = "Gender"
    /\ NRows = 3

\* split_data raises `name` exactly when the table has fewer than 3 rows; with
\* 3 or more rows it returns three non-empty splits.
RaisesBelowThreeRows(name) ==
    Called("split_data") =>
        IF NRows < 3
        THEN pc = "raised" /\ error = name
        ELSE /\ pc = "returned"
             /\ Index(X_train) # {} /\ Index(X_val) # {} /\ Index(X_test) # {}
             /\ Index(y_train) # {} /\ Index(y_val) # {} /\ Index(y_test) # {}

====
